---- MODULE Spec2Model ----
(***************************************************************************)
(* A model of model-training/train.py: the character vocabulary and        *)
(* encode_word, build_dataset, the load/train pipeline and generate_word.  *)
(*                                                                         *)
(* Representation.  A Python str is a sequence of one-character strings.   *)
(* A float is a fraction <<numerator, denominator>> (0.0 is <<0, 1>>,      *)
(* 1.0 is <<1, 1>>, i / SEQ_LEN is <<i, SEQ_LEN>>).  A numpy vector v is a *)
(* sequence whose element j + 1 is v[j].  A probability vector is kept by  *)
(* the sign of each entry ("zero" or "pos"): the sampler's possible        *)
(* outcomes are the entries that are not zero.  A temperature is kept in   *)
(* tenths (10 is 1.0).                                                     *)
(***************************************************************************)
EXTENDS Integers, Sequences, FiniteSets, Bags, TLC

VARIABLES
    pc,           \* where the modelled call stands
    interpreter,  \* generate_word: the loaded scoring function
    temperature,  \* generate_word: the temperature argument, in tenths
    char_idx,     \* generate_word: index of the current symbol
    word,         \* generate_word: the letters accumulated so far
    pos,          \* generate_word: the loop variable of the next iteration
    inp,          \* generate_word: the feature vector of the last query
    sampled,      \* history: every index np.random.choice has returned
    result,       \* generate_word: the returned string
    adjectives,   \* build_dataset: its argument / train: the loaded words
    X,            \* build_dataset: the returned features
    y,            \* build_dataset: the returned targets
    lines,        \* load_adjectives: the lines of curated_adjectives.txt
    enc_in,       \* encode_word: its argument
    enc_out       \* encode_word: the returned list

vars == <<pc, interpreter, temperature, char_idx, word, pos, inp, sampled,
          result, adjectives, X, y, lines, enc_in, enc_out>>

genVars == <<interpreter, temperature, char_idx, word, pos, inp, sampled, result>>
dataVars == <<adjectives, X, y, lines>>
encVars == <<enc_in, enc_out>>

----------------------------------------------------------------------------
(* Bounds of the model *)

\* generate_word: the sampler's draws are START, END and the first
\* NumDrawnLetters letters.
NumDrawnLetters == 2
\* encode_word, build_dataset: the words are runs of consecutive letters that
\* start at one of the first NumStarts letters, of at most MaxInputLen letters
\* (MaxInputLen is above MAX_WORD_LEN, so that words are truncated), and
\* "blue"; a word list holds at most MaxWords words.
NumStarts == 2
MaxInputLen == 11
MaxWords == 2
\* build_dataset: the shuffles drawn are the identity, the reversal and the
\* rotations by 1 .. MaxRotate.
MaxRotate == 1
\* load_adjectives: the file holds at most MaxLines lines.
MaxLines == 2

----------------------------------------------------------------------------
(* 2. Character-level encoding *)

CHARS == <<"a", "b", "c", "d", "e", "f", "g", "h", "i", "j", "k", "l", "m",
           "n", "o", "p", "q", "r", "s", "t", "u", "v", "w", "x", "y", "z">>
START_TOKEN == "^"
END_TOKEN == "$"
VOCAB == <<START_TOKEN>> \o CHARS \o <<END_TOKEN>>
VOCAB_SIZE == Len(VOCAB)
Indices == 0 .. (VOCAB_SIZE - 1)

\* c in CHAR_TO_IDX: a lookup of any other character raises KeyError.
InVocab(c) == \E i \in Indices : VOCAB[i + 1] = c
CHAR_TO_IDX(c) == CHOOSE i \in Indices : VOCAB[i + 1] = c
IDX_TO_CHAR(i) == VOCAB[i + 1]

MAX_WORD_LEN == 9
SEQ_LEN == MAX_WORD_LEN + 1

Min(a, b) == IF a <= b THEN a ELSE b

----------------------------------------------------------------------------
(* Floats and feature vectors *)

Zero == <<0, 1>>
One == <<1, 1>>

\* inp = np.zeros(VOCAB_SIZE + 1); inp[idx] = 1.0; inp[-1] = position / SEQ_LEN
FeaturePositionOfLetters(position, letters) == letters
FeaturePosition(position, letters) == position
FeatureVector(idx, position) ==
    [j \in 1 .. (VOCAB_SIZE + 1) |->
        IF j = VOCAB_SIZE + 1 THEN <<position, SEQ_LEN>>
        ELSE IF j = idx + 1 THEN One ELSE Zero]

----------------------------------------------------------------------------
(* Python str methods *)

UPPER == <<"A", "B", "C", "D", "E", "F", "G", "H", "I", "J", "K", "L", "M",
           "N", "O", "P", "Q", "R", "S", "T", "U", "V", "W", "X", "Y", "Z">>
\* Alphabetic characters outside ASCII, each written as one character of the
\* model: e with acute accent, small and capital.
E_ACUTE == "e'"
CAPITAL_E_ACUTE == "E'"

Range(s) == {s[i] : i \in DOMAIN s}

\* str.lower(), one character
Lower(c) ==
    IF c \in Range(UPPER) THEN CHARS[CHOOSE k \in DOMAIN UPPER : UPPER[k] = c]
    ELSE IF c = CAPITAL_E_ACUTE THEN E_ACUTE
    ELSE c
\* str.lower()
LowerStr(s) == [i \in 1 .. Len(s) |-> Lower(s[i])]

IsSpace(c) == c \in {" ", "\t", "\n"}
RECURSIVE LStrip(_)
LStrip(s) == IF s # <<>> /\ IsSpace(Head(s)) THEN LStrip(Tail(s)) ELSE s
RECURSIVE RStrip(_)
RStrip(s) ==
    IF s # <<>> /\ IsSpace(s[Len(s)]) THEN RStrip(SubSeq(s, 1, Len(s) - 1)) ELSE s
\* str.strip()
Strip(s) == RStrip(LStrip(s))

\* str.isalpha(): every character is a letter of any alphabet, and there is one
IsAlphaChar(c) ==
    c \in Range(CHARS) \cup Range(UPPER) \cup {E_ACUTE, CAPITAL_E_ACUTE}
IsAlpha(s) == s # <<>> /\ \A i \in 1 .. Len(s) : IsAlphaChar(s[i])

----------------------------------------------------------------------------
(* 1. Dataset *)

\* words = [w.strip().lower() for w in f if w.strip()]
\* return [w for w in words if w.isalpha() and len(w) <= max_len]
load_adjectives(file, max_len) ==
    LET NotBlank(w) == Strip(w) # <<>>
        kept == SelectSeq(file, NotBlank)
        words == [k \in 1 .. Len(kept) |-> LowerStr(Strip(kept[k]))]
        Accepted(w) == IsAlpha(w) /\ Len(w) <= max_len
    IN SelectSeq(words, Accepted)

----------------------------------------------------------------------------
(* 2. encode_word *)

\* word[:MAX_WORD_LEN]
Untruncated(w) == w
Truncate(w) == SubSeq(w, 1, Min(Len(w), MAX_WORD_LEN))

\* every CHAR_TO_IDX[c] of encode_word(w) finds its key
Encodable(w) == \A i \in 1 .. Len(Truncate(w)) : InVocab(Truncate(w)[i])

encode_word(w) ==
    LET t == Truncate(w)
    IN <<CHAR_TO_IDX(START_TOKEN)>>
         \o [i \in 1 .. Len(t) |-> CHAR_TO_IDX(t[i])]
         \o <<CHAR_TO_IDX(END_TOKEN)>>

----------------------------------------------------------------------------
(* 3. Build training pairs *)

\* y_list.append(encoded[i + 1]), for the 0-based i = k - 1
PairTargetCurrent(encoded, k) == encoded[k]
PairTarget(encoded, k) == encoded[k + 1]

\* the X_list and y_list entries of one word: for i in range(len(encoded) - 1)
WordInputs(w) ==
    LET encoded == encode_word(LowerStr(w))
    IN [k \in 1 .. (Len(encoded) - 1) |-> FeatureVector(encoded[k], k - 1)]
WordTargets(w) ==
    LET encoded == encode_word(LowerStr(w))
    IN [k \in 1 .. (Len(encoded) - 1) |-> PairTarget(encoded, k)]

RECURSIVE X_list(_)
X_list(words) ==
    IF words = <<>> THEN <<>> ELSE WordInputs(Head(words)) \o X_list(Tail(words))
RECURSIVE y_list(_)
y_list(words) ==
    IF words = <<>> THEN <<>> ELSE WordTargets(Head(words)) \o y_list(Tail(words))

\* np.random.shuffle(indices): the orders of 1 .. n that are drawn
Shuffles(n) ==
    {[k \in 1 .. n |-> k], [k \in 1 .. n |-> n + 1 - k]}
        \cup {[k \in 1 .. n |-> ((k - 1 + r) % n) + 1] : r \in 1 .. (IF n = 0 THEN 0 ELSE MaxRotate)}

\* X[indices], y[indices]
TakeUnshuffled(list, indices) == list
Take(list, indices) == [k \in 1 .. Len(indices) |-> list[indices[k]]]
TakeTargets(list, indices) == Take(list, indices)

\* every word of the list can be encoded: otherwise build_dataset raises KeyError
AllEncodable(words) == \A k \in 1 .. Len(words) : Encodable(LowerStr(words[k]))

build_dataset(words, indices) ==
    [X |-> Take(X_list(words), indices), y |-> TakeTargets(y_list(words), indices)]

\* The words given to encode_word and build_dataset.
Run(s, n) == [i \in 1 .. n |-> CHARS[((s + i - 2) % Len(CHARS)) + 1]]
BLUE == <<"b", "l", "u", "e">>
InputWords ==
    {Run(s, n) : s \in 1 .. NumStarts, n \in 0 .. MaxInputLen} \cup {BLUE}
\* The words of a word list: of no letter, one letter, two letters, as many as
\* MAX_WORD_LEN and more, and "blue"; build_dataset lowers each word, so one
\* word holds a capital.
DatasetWords ==
    {Run(s, n) : s \in 1 .. NumStarts, n \in {0, 1, 2, MAX_WORD_LEN, MaxInputLen}}
        \cup {BLUE, <<"B", "l", "u", "e">>}
WordLists == UNION {[1 .. n -> DatasetWords] : n \in 0 .. MaxWords}

\* encode_word(word)
EncodeWord ==
    /\ pc = "idle"
    /\ \E w \in InputWords :
        /\ enc_in' = w
        /\ enc_out' = encode_word(w)
    /\ pc' = "encode_done"
    /\ UNCHANGED <<genVars, dataVars>>

\* build_dataset(adjectives)
BuildDataset ==
    /\ pc = "idle"
    /\ \E words \in WordLists :
        \E indices \in Shuffles(Len(X_list(words))) :
            LET returned == build_dataset(words, indices)
            IN /\ adjectives' = words
               /\ X' = returned.X
               /\ y' = returned.y
    /\ pc' = "dataset_done"
    /\ UNCHANGED <<genVars, encVars, lines>>

----------------------------------------------------------------------------
(* 5. Training *)

\* The lines of curated_adjectives.txt: a word, or a string that is not one,
\* with or without blanks around it, and the line's end.
FileWords ==
    {Run(1, n) : n \in 0 .. MaxInputLen}
        \cup {BLUE, <<"B", "l", "u", "e">>, <<"c", "a", "f", E_ACUTE>>,
              <<"h", "i", "-", "f", "i">>, <<"n", "e", "w", " ", "a", "g", "e">>}
FileLines ==
    {lead \o w \o trail : lead \in {<<>>, <<" ">>}, w \in FileWords,
                          trail \in {<<"\n">>, <<" ", "\n">>}}
Files == UNION {[1 .. n -> FileLines] : n \in 0 .. MaxLines}

\* words = load_adjectives(max_len=MAX_WORD_LEN)
TrainLoad ==
    /\ pc = "idle"
    /\ \E file \in Files :
        /\ lines' = file
        /\ adjectives' = load_adjectives(file, MAX_WORD_LEN)
    /\ pc' = "train_loaded"
    /\ UNCHANGED <<genVars, encVars, X, y>>

\* X, y = build_dataset(words)
TrainBuildDataset ==
    /\ pc = "train_loaded"
    /\ IF AllEncodable(adjectives)
       THEN \E indices \in Shuffles(Len(X_list(adjectives))) :
               LET returned == build_dataset(adjectives, indices)
               IN /\ X' = returned.X
                  /\ y' = returned.y
                  /\ pc' = "train_built"
       ELSE /\ pc' = "KeyError"
            /\ UNCHANGED <<X, y>>
    /\ UNCHANGED <<genVars, encVars, adjectives, lines>>

\* model = build_model(input_dim, VOCAB_SIZE, ...); model.summary()
TrainBuildModel ==
    /\ pc = "train_built"
    /\ pc' = "train_model"
    /\ UNCHANGED <<genVars, encVars, dataVars>>

\* model.fit(X_train, y_train, validation_data=(X_val, y_val), ...)
TrainFit ==
    /\ pc = "train_model"
    /\ pc' = "train_fit"
    /\ UNCHANGED <<genVars, encVars, dataVars>>

----------------------------------------------------------------------------
(* 7. Generation *)

\* The scoring functions the generator is run with: one that gives the end
\* symbol probability 1 whatever its input, one that gives the end symbol
\* probability 0 and every other symbol a probability above 0, and one that
\* gives every symbol a probability above 0.  The functions are stateless; what
\* any other scoring function lets the sampler draw, the last one lets it draw
\* too.
Interpreters == {"end_only", "no_end", "uniform"}
\* 1.0 (the default) and 0.5, in tenths.
Temperatures == {10, 5}

tflite_predict(interp, input) ==
    [i \in Indices |->
        IF interp = "end_only"
        THEN (IF i = CHAR_TO_IDX(END_TOKEN) THEN "pos" ELSE "zero")
        ELSE IF interp = "no_end"
        THEN (IF i = CHAR_TO_IDX(END_TOKEN) THEN "zero" ELSE "pos")
        ELSE "pos"]

\* log_probs = np.log(probs + 1e-10) / temperature
\* probs = np.exp(log_probs) / np.sum(np.exp(log_probs))
\* probs + 1e-10 is above 0 in every entry, so its logarithm is finite and
\* the exponential of the quotient is above 0: no entry stays zero.
Reweight(probs, temp) == [i \in Indices |-> "pos"]

AlwaysReweight(probs, temp) == Reweight(probs, temp)
ApplyTemperature(probs, temp) ==
    IF temp # 10 THEN Reweight(probs, temp) ELSE probs

\* np.random.choice(len(probs), p=probs): any index whose probability is not 0
np_random_choice(probs) == {i \in Indices : probs[i] = "pos"}

DrawnIndices ==
    {CHAR_TO_IDX(START_TOKEN), CHAR_TO_IDX(END_TOKEN)}
        \cup {CHAR_TO_IDX(CHARS[k]) : k \in 1 .. NumDrawnLetters}

\* for pos in range(MAX_WORD_LEN)
LoopRangeOneMore == 0 .. MAX_WORD_LEN
LoopRange == 0 .. (MAX_WORD_LEN - 1)

\* if char == END_TOKEN: break
Breaks(char) == char = END_TOKEN

\* if char == START_TOKEN: continue / word.append(char)
AppendAnyChar(w, char) == Append(w, char)
AppendChar(w, char) == IF char = START_TOKEN THEN w ELSE Append(w, char)

RECURSIVE Join(_)
\* "".join(word)
Join(w) == IF w = <<>> THEN <<>> ELSE <<Head(w)>> \o Join(Tail(w))

\* generate_word is called: lines 174-176
GenerateCall ==
    /\ pc = "idle"
    /\ \E interp \in Interpreters, temp \in Temperatures :
        /\ interpreter' = interp
        /\ temperature' = temp
    /\ char_idx' = CHAR_TO_IDX(START_TOKEN)
    /\ word' = <<>>
    /\ pos' = 0
    /\ pc' = "gen_loop"
    /\ UNCHANGED <<inp, sampled, result, dataVars, encVars>>

\* one iteration of the loop, and the return when the loop ends with it
GenerateStep ==
    /\ pc = "gen_loop"
    /\ pos \in LoopRange
    /\ LET input == FeatureVector(char_idx, FeaturePosition(pos, Len(word)))
           probs == ApplyTemperature(tflite_predict(interpreter, input), temperature)
       IN /\ inp' = input
          /\ \E idx \in np_random_choice(probs) \cap DrawnIndices :
               LET char == IDX_TO_CHAR(idx)
                   stop == Breaks(char)
                   w == IF stop THEN word ELSE AppendChar(word, char)
               IN /\ char_idx' = idx
                  /\ sampled' = Append(sampled, idx)
                  /\ word' = w
                  /\ IF stop \/ (pos + 1) \notin LoopRange
                     THEN /\ pc' = "gen_done"
                          /\ pos' = pos
                          /\ result' = Join(w)
                     ELSE /\ pc' = "gen_loop"
                          /\ pos' = pos + 1
                          /\ UNCHANGED result
    /\ UNCHANGED <<interpreter, temperature, dataVars, encVars>>

Init ==
    /\ pc = "idle"
    /\ interpreter = "none"
    /\ temperature = 10
    /\ char_idx = 0
    /\ word = <<>>
    /\ pos = 0
    /\ inp = <<>>
    /\ sampled = <<>>
    /\ result = <<>>
    /\ adjectives = <<>>
    /\ X = <<>>
    /\ y = <<>>
    /\ lines = <<>>
    /\ enc_in = <<>>
    /\ enc_out = <<>>

----------------------------------------------------------------------------
(* Specifications *)

NextGen == GenerateCall \/ GenerateStep
NextData == EncodeWord \/ BuildDataset
NextTrain == TrainLoad \/ TrainBuildDataset \/ TrainBuildModel \/ TrainFit
Next == NextGen \/ NextData \/ NextTrain

SpecGen == Init /\ [][NextGen]_vars
SpecData == Init /\ [][NextData]_vars
SpecTrain == Init /\ [][NextTrain]_vars
Spec == Init /\ [][Next]_vars

----------------------------------------------------------------------------
(* Properties of encode_word and build_dataset, under SpecData *)

\* The index of a letter, small or capital: its place in the alphabet.
LetterIndex(c) == CHOOSE k \in 1 .. 26 : CHARS[k] = c \/ UPPER[k] = c

\* C3: for every word of lowercase letters, of any length, encode_word returns
\* the start index, then the indices of the first min(len(word), MAX_WORD_LEN)
\* letters in order, then the end index: min(len(word), 9) + 2 entries, a
\* longer word being cut to its first 9 letters without an error.
EncodeWordShape ==
    pc = "encode_done" =>
        LET m == Min(Len(enc_in), MAX_WORD_LEN)
        IN /\ Len(enc_out) = m + 2
           /\ enc_out[1] = CHAR_TO_IDX(START_TOKEN)
           /\ enc_out[m + 2] = CHAR_TO_IDX(END_TOKEN)
           /\ \A i \in 1 .. m : enc_out[i + 1] = LetterIndex(enc_in[i])

\* A word longer than MAX_WORD_LEN has been encoded.
EncodeWordTruncates ==
    /\ pc = "encode_done"
    /\ Len(enc_in) = MAX_WORD_LEN + 2
    /\ Len(enc_out) = MAX_WORD_LEN + 2

\* The symbol at 0-based position i of a word's encoded sequence, as the
\* data model words it: [start] + letter indices + [end].
SymbolAt(w, i) ==
    IF i = 0 THEN 0
    ELSE IF i = Min(Len(w), MAX_WORD_LEN) + 1 THEN 27
    ELSE LetterIndex(w[i])
\* A 29-dim vector, one-hot at idx, its last entry i / SEQ_LEN.
OneHotWithPosition(idx, i) ==
    [j \in 1 .. 29 |-> IF j = 29 THEN <<i, 10>>
                       ELSE IF j = idx + 1 THEN <<1, 1>> ELSE <<0, 1>>]
\* The adjacent position pairs (i, i + 1) of every word: <<word number, i>>.
AdjacentPositions(words) ==
    {p \in (1 .. Len(words)) \X (0 .. MAX_WORD_LEN) :
        p[2] <= Min(Len(words[p[1]]), MAX_WORD_LEN)}
ExpectedPair(words, p) ==
    <<OneHotWithPosition(SymbolAt(words[p[1]], p[2]), p[2]),
      SymbolAt(words[p[1]], p[2] + 1)>>
\* The (one-hot index, position, target) of the k-th returned pair.
Triple(k) ==
    <<CHOOSE idx \in 0 .. 27 : X[k][idx + 1] = <<1, 1>>, X[k][29][1], y[k]>>

\* C4: for any list of words (sequences of letters), build_dataset returns,
\* up to one permutation of features and targets
\* together, exactly one pair per adjacent position pair (i, i + 1) of each
\* word's encoded sequence: the feature one-hot at symbol i with last entry
\* i / SEQ_LEN, the target the index of symbol i + 1; min(len(word), 9) + 1
\* pairs per word, none across two words; ["blue"] gives the 5 pairs
\* start->b, b->l, l->u, u->e, e->end.
BuildDatasetPairs ==
    pc = "dataset_done" =>
        LET expected == AdjacentPositions(adjectives)
            returned == {<<X[k], y[k]>> : k \in 1 .. Len(X)}
        IN /\ Len(X) = Len(y)
           /\ Len(X) = Cardinality(expected)
           /\ \A e \in returned \cup {ExpectedPair(adjectives, p) : p \in expected} :
                Cardinality({k \in 1 .. Len(X) : <<X[k], y[k]>> = e})
                    = Cardinality({p \in expected : ExpectedPair(adjectives, p) = e})
           /\ adjectives = <<BLUE>> =>
                /\ Len(X) = 5
                /\ {Triple(k) : k \in 1 .. 5}
                     = {<<0, 0, 2>>, <<2, 1, 12>>, <<12, 2, 21>>, <<21, 3, 5>>, <<5, 4, 27>>}

\* ["blue"] has been built, and returned in reverse order.
BuildDatasetBlueShuffled ==
    /\ pc = "dataset_done"
    /\ adjectives = <<BLUE>>
    /\ y = <<27, 5, 21, 12, 2>>

\* C5: for any list of words (sequences of letters), build_dataset emits no
\* pair whose target is the start symbol: the start symbol is the one-hot
\* feature of the pairs at position 0, and of no other pair.
BuildDatasetStartOnlyFirst ==
    pc = "dataset_done" =>
        \A k \in 1 .. Len(y) :
            /\ y[k] # CHAR_TO_IDX(START_TOKEN)
            /\ X[k][CHAR_TO_IDX(START_TOKEN) + 1] = One <=> X[k][VOCAB_SIZE + 1] = <<0, SEQ_LEN>>

\* Two words have been built: the start symbol is the feature of two pairs.
BuildDatasetTwoWords ==
    /\ pc = "dataset_done"
    /\ Len(adjectives) = 2
    /\ Cardinality({k \in 1 .. Len(X) : X[k][CHAR_TO_IDX(START_TOKEN) + 1] = One}) = 2
    /\ Len(X) > 2

----------------------------------------------------------------------------
(* Properties of the training pipeline, under SpecTrain *)

\* C6: with an empty word list the pipeline stops before model construction
\* and fitting: train never hands an empty dataset on to build_model and fit.
TrainRejectsEmptyList ==
    pc \in {"train_model", "train_fit"} => adjectives # <<>> /\ X # <<>>

\* C10: every word load_adjectives returns holds only the 26 vocabulary
\* letters, so that build_dataset does not fail on it.
LoadedWordsEncodable ==
    /\ pc # "KeyError"
    /\ pc = "train_loaded" =>
        \A k \in 1 .. Len(adjectives) :
            \A i \in 1 .. Len(adjectives[k]) : adjectives[k][i] \in Range(CHARS)

----------------------------------------------------------------------------
(* Properties of generate_word, under SpecGen *)

START_IDX == CHAR_TO_IDX(START_TOKEN)
END_IDX == CHAR_TO_IDX(END_TOKEN)

\* The letters among the sampled indices s, in order.
RECURSIVE SampledLetters(_)
SampledLetters(s) ==
    IF s = <<>> THEN <<>>
    ELSE (IF Head(s) \in 1 .. 26 THEN <<CHARS[Head(s)]>> ELSE <<>>)
            \o SampledLetters(Tail(s))
StartCount(s) == Cardinality({k \in 1 .. Len(s) : s[k] = START_IDX})

\* C1: generate_word returns at most MAX_WORD_LEN characters, each one of the
\* 26 lowercase letters: neither '^' nor '$' is in the returned string.
GenerateReturnsLetters ==
    pc = "gen_done" =>
        /\ Len(result) <= MAX_WORD_LEN
        /\ \A i \in 1 .. Len(result) :
            /\ result[i] \in Range(CHARS)
            /\ result[i] # START_TOKEN
            /\ result[i] # END_TOKEN

\* A word is returned after the start symbol and then the end symbol were sampled.
GenerateReturnedAfterMarkers ==
    /\ pc = "gen_done"
    /\ START_IDX \in Range(sampled)
    /\ sampled[Len(sampled)] = END_IDX
    /\ Len(result) >= 2

\* C2: generate_word queries the model at most MAX_WORD_LEN times, whatever is
\* sampled: it goes on while neither the end symbol was sampled nor the bound
\* was reached, and it stops at the first end symbol or at the bound.
GenerateTerminates ==
    /\ Len(sampled) <= MAX_WORD_LEN
    /\ pc = "gen_loop" =>
        /\ Len(sampled) < MAX_WORD_LEN
        /\ END_IDX \notin Range(sampled)
        /\ ENABLED GenerateStep
    /\ pc = "gen_done" =>
        /\ Len(sampled) >= 1
        /\ sampled[Len(sampled)] = END_IDX \/ Len(sampled) = MAX_WORD_LEN
        /\ \A k \in 1 .. (Len(sampled) - 1) : sampled[k] # END_IDX
        /\ ~ENABLED GenerateStep

\* The loop has ended at the bound: the end symbol was never sampled.
GenerateStoppedAtBound ==
    /\ pc = "gen_done"
    /\ Len(sampled) = MAX_WORD_LEN
    /\ END_IDX \notin Range(sampled)

\* C7: generate_word stops at the first iteration that samples the end symbol
\* and returns the letters sampled before it, in sampling order; at
\* temperature 1.0, with a model that gives the end symbol probability 1, it
\* returns the empty string after one query.
GenerateStopsAtEnd ==
    /\ pc = "gen_loop" => END_IDX \notin Range(sampled)
    /\ (pc = "gen_done" /\ sampled[Len(sampled)] = END_IDX) =>
        /\ \A k \in 1 .. (Len(sampled) - 1) : sampled[k] # END_IDX
        /\ result = SampledLetters(SubSeq(sampled, 1, Len(sampled) - 1))
    /\ (pc = "gen_done" /\ interpreter = "end_only" /\ temperature = 10) =>
        /\ result = <<>>
        /\ Len(sampled) = 1

\* b, the start symbol, a and the end symbol were sampled: "ba" is returned.
GenerateStoppedAtEnd ==
    /\ pc = "gen_done"
    /\ sampled = <<2, 0, 1, 27>>
    /\ result = <<"b", "a">>

\* C9: sampling the start symbol appends no letter and does not stop the loop,
\* but takes an iteration: the position fed at iteration k is k / SEQ_LEN, the
\* next input is one-hot at the start symbol, and the word has at most
\* MAX_WORD_LEN minus the number of start samples letters.
GenerateStartTakesIteration ==
    LET n == Len(sampled)
    IN (pc \in {"gen_loop", "gen_done"} /\ n >= 1) =>
        /\ inp[VOCAB_SIZE + 1] = <<n - 1, SEQ_LEN>>
        /\ inp[(IF n = 1 THEN START_IDX ELSE sampled[n - 1]) + 1] = One
        /\ sampled[n] = START_IDX =>
            /\ char_idx = START_IDX
            /\ word = SampledLetters(SubSeq(sampled, 1, n - 1))
            /\ pc = "gen_done" <=> n = MAX_WORD_LEN
        /\ Len(word) <= MAX_WORD_LEN - StartCount(sampled)
        /\ pc = "gen_done" => Len(result) <= MAX_WORD_LEN - StartCount(sampled)

\* The start symbol was sampled first and once more, the loop ran to its
\* bound, and the word is two letters short of MAX_WORD_LEN.
GenerateSkippedStart ==
    /\ pc = "gen_done"
    /\ Len(sampled) = MAX_WORD_LEN
    /\ sampled[1] = START_IDX
    /\ StartCount(sampled) = 2
    /\ Len(result) = MAX_WORD_LEN - 2

====
